---- MODULE Spec2Model ----
(***************************************************************************)
(* The three snake games of the repository as one state machine.  The      *)
(* variable `variant` says which program is running:                       *)
(*   "explodo"     hungry_caterpillar_explodo.py (GameState gs)            *)
(*   "snake"       snake_game.py                 (Snake/Food in bs)        *)
(*   "caterpillar" caterpillar_game.py           (Caterpillar/Food in bs)  *)
(* Times are integer milliseconds (the source uses float seconds), the     *)
(* blast radius is kept in tenths of a tile.  A cell is <<x, y>>.          *)
(***************************************************************************)
EXTENDS Integers, Sequences, FiniteSets

VARIABLES variant, gs, time_accum, dt, pc, bs, key, req, moved, eaten, work

vars == <<variant, gs, time_accum, dt, pc, bs, key, req, moved, eaten, work>>

(* ------------------------------ bounds --------------------------------- *)

\* The explored prefix of a run of a program: `work` counts 1 for every
\* movement step and 2 for every KEYDOWN event.
\* hungry_caterpillar_explodo.py
MaxWork == 12
\* snake_game.py and caterpillar_game.py
MaxBasicWork == 15
\* hungry_caterpillar_explodo.py, from a crowded board
MaxCrowdedWork == 7

(* ------------------- hungry_caterpillar_explodo.py --------------------- *)

GRID_W == 28
GRID_H == 20
FPS == 14
\* seconds in the source, milliseconds here
NITRO_MIN_FUSE == 6000
NITRO_MAX_FUSE == 10000
\* 2.4 tiles in the source, tenths of a tile here
NITRO_BLAST_RADIUS10 == 24
NITRO_DEBRIS_MIN == 6
NITRO_DEBRIS_MAX == 12
\* spawn_rocks(gs, n=12) in main
N_ROCKS == 12

RIGHT == <<1, 0>>
LEFT == <<-1, 0>>
UP == <<0, -1>>
DOWN == <<0, 1>>
Directions == {UP, DOWN, LEFT, RIGHT}

Min(a, b) == IF a < b THEN a ELSE b
Max(a, b) == IF a > b THEN a ELSE b
Cells(s) == {s[i] : i \in 1..Len(s)}
Opposite(d) == <<-d[1], -d[2]>>

\* the outcomes of the random draws that are explored: the cell of a food, its
\* fuse (random.uniform(NITRO_MIN_FUSE, NITRO_MAX_FUSE)), the debris count
FoodCells == {<<10, 10>>, <<11, 12>>}
FuseChoices == {NITRO_MIN_FUSE}
DebrisCounts == {NITRO_DEBRIS_MIN, NITRO_DEBRIS_MAX}
\* the cell drawn by the i-th rand_empty call of spawn_rocks
RockDraws ==
  << {<<9, 9>>}, {<<12, 10>>}, {<<10, 8>>}, {<<27, 0>>}, {<<27, 1>>}, {<<27, 2>>},
     {<<27, 3>>}, {<<27, 4>>}, {<<27, 5>>}, {<<27, 6>>}, {<<27, 7>>},
     {<<27, 8>>} >>
\* clock.tick(FPS) / 1000.0: a frame just short of a tick interval, and a stall
DtChoices == {71, 6000}

\* mutant: the upper limits are included
within_bounds_inclusive(x, y) == 0 <= x /\ x <= GRID_W /\ 0 <= y /\ y <= GRID_H

within_bounds(x, y) == 0 <= x /\ x < GRID_W /\ 0 <= y /\ y < GRID_H

GameState(best0) ==
  [snake |-> <<>>, dir |-> RIGHT, grow |-> 0, rocks |-> {}, food |-> <<>>,
   score |-> 0, best |-> best0, alive |-> TRUE, paused |-> FALSE]

Food(p, k, f) == [pos |-> p, kind |-> k, fuse |-> f, fuse_total |-> f]

spawn_snake(g) ==
  LET cx == GRID_W \div 3
      cy == GRID_H \div 2
  IN [g EXCEPT !.snake = [j \in 1..5 |-> <<cx - (5 - j), cy>>],
               !.dir = RIGHT, !.grow = 0]

occupied(g) ==
  Cells(g.snake) \cup g.rocks \cup (IF g.food # <<>> THEN {g.food[1].pos} ELSE {})

empty_cells(g) ==
  LET occ == occupied(g)
  IN {c \in (0..(GRID_W - 1)) \X (0..(GRID_H - 1)) : c \notin occ}

\* random.choice(cells), or None ({}) when there is no empty cell; the draw is
\* taken among the empty cells of cand, or is the first empty cell when cand
\* has none
rand_empty(g, cand) ==
  LET occ == occupied(g)
      free == {c \in cand : within_bounds(c[1], c[2]) /\ c \notin occ}
      rank(c) == c[2] * GRID_W + c[1]
  IN IF free # {} THEN free
     ELSE LET cells == empty_cells(g)
          IN IF cells = {} THEN {}
             ELSE {CHOOSE c \in cells : \A e \in cells : rank(c) <= rank(e)}

spawn_food(g, force_leaf) ==
  LET ps == rand_empty(g, FoodCells)
  IN IF ps = {} THEN {g}
     ELSE {[g EXCEPT !.food = <<Food(p, "leaf", 0)>>] : p \in ps}
          \cup (IF force_leaf THEN {}
                ELSE {[g EXCEPT !.food = <<Food(p, "nitro", f)>>] :
                        p \in ps, f \in FuseChoices})

RECURSIVE spawn_rocks_from(_, _, _)
spawn_rocks_from(g, i, n) ==
  IF i > n THEN {g}
  ELSE LET ps == rand_empty(g, RockDraws[i])
       IN IF ps = {} THEN spawn_rocks_from(g, i + 1, n)
          ELSE UNION {spawn_rocks_from([g EXCEPT !.rocks = @ \cup {p}], i + 1, n) :
                        p \in ps}

spawn_rocks(g, n) == spawn_rocks_from(g, 1, n)

\* mutant: the grow counter is not decremented when the tail is kept
advance_body_keep_grow(g, new_head) ==
  IF g.grow > 0
    THEN [g EXCEPT !.snake = Append(@, new_head)]
    ELSE [g EXCEPT !.snake = Tail(Append(@, new_head))]

\* lines 161-165: append the new head, then grow or drop the tail
advance_body(g, new_head) ==
  IF g.grow > 0
    THEN [g EXCEPT !.snake = Append(@, new_head), !.grow = @ - 1]
    ELSE [g EXCEPT !.snake = Tail(Append(@, new_head))]

\* dist(a, b) <= NITRO_BLAST_RADIUS, on the squares: hypot(dx, dy) <= r
dist2(a, b) == (a[1] - b[1]) * (a[1] - b[1]) + (a[2] - b[2]) * (a[2] - b[2])

\* mutant: the squared distance is compared with the radius itself
blast_reaches_unsquared(center, head) ==
  10 * dist2(center, head) <= NITRO_BLAST_RADIUS10

blast_reaches(center, head) ==
  100 * dist2(center, head) <= NITRO_BLAST_RADIUS10 * NITRO_BLAST_RADIUS10

\* mutant: the inner limit of the ring is missing
in_ring_no_inner(d2) ==
  d2 * 1000 <= NITRO_BLAST_RADIUS10 * NITRO_BLAST_RADIUS10 * 13

\* r2 * 0.6 <= d2 <= r2 * 1.3 with r2 = radius ** 2 (scaled by 1000)
in_ring(d2) ==
  LET r2x100 == NITRO_BLAST_RADIUS10 * NITRO_BLAST_RADIUS10
  IN r2x100 * 6 <= d2 * 1000 /\ d2 * 1000 <= r2x100 * 13

\* the cells of the debris ring in the order the two loops append them
ring_cells(center) ==
  LET cx == center[1]
      cy == center[2]
      ceil == (NITRO_BLAST_RADIUS10 + 9) \div 10
      side == 2 * ceil + 3
      scan == [k \in 1..(side * side) |->
                 <<cx - ceil - 1 + ((k - 1) % side), cy - ceil - 1 + ((k - 1) \div side)>>]
      keep(c) == within_bounds(c[1], c[2]) /\ in_ring(dist2(c, center))
  IN SelectSeq(scan, keep)

\* ring_positions[:debris_n] after random.shuffle: the shuffles explored are
\* the identity and the reversal
debris_picks(center) ==
  LET ring == ring_cells(center)
      len == Len(ring)
  IN UNION {{ {ring[i] : i \in 1..Min(n, len)},
              {ring[i] : i \in (len - Min(n, len) + 1)..len} } : n \in DebrisCounts}

\* mutant: the debris replaces the rocks
trigger_explosion_replaces_rocks(g, center) ==
  {[g EXCEPT
      !.rocks = {p \in picks : p \notin Cells(g.snake) /\ p \notin g.rocks
                               /\ within_bounds(p[1], p[2])},
      !.alive = IF blast_reaches(center, g.snake[Len(g.snake)]) THEN FALSE ELSE @]
   : picks \in debris_picks(center)}

\* mutant: debris also lands on snake cells
trigger_explosion_on_snake(g, center) ==
  {[g EXCEPT
      !.rocks = @ \cup {p \in picks : p \notin g.rocks /\ within_bounds(p[1], p[2])},
      !.alive = IF blast_reaches(center, g.snake[Len(g.snake)]) THEN FALSE ELSE @]
   : picks \in debris_picks(center)}

\* mutant: a blast centred on the head itself is not lethal
trigger_explosion_spares_center(g, center) ==
  {[g EXCEPT
      !.rocks = @ \cup {p \in picks : p \notin Cells(g.snake) /\ p \notin g.rocks
                                      /\ within_bounds(p[1], p[2])},
      !.alive = IF blast_reaches(center, g.snake[Len(g.snake)])
                     /\ center # g.snake[Len(g.snake)] THEN FALSE ELSE @]
   : picks \in debris_picks(center)}

trigger_explosion(g, center) ==
  {[g EXCEPT
      !.rocks = @ \cup {p \in picks : p \notin Cells(g.snake) /\ p \notin g.rocks
                                      /\ within_bounds(p[1], p[2])},
      !.alive = IF blast_reaches(center, g.snake[Len(g.snake)]) THEN FALSE ELSE @]
   : picks \in debris_picks(center)}

\* mutant: only the pause stops step_snake
frozen_paused_only(g) == g.paused

\* mutant: only the tail cell is tested
self_hit_tail_only(g, new_head) == new_head = g.snake[1]

\* line 141: if not gs.alive or gs.paused: return
frozen(g) == ~g.alive \/ g.paused

\* line 152: new_head in gs.snake
self_hit(g, new_head) == new_head \in Cells(g.snake)

step_snake(g) ==
  IF frozen(g) THEN {g}
  ELSE
    LET h == g.snake[Len(g.snake)]
        new_head == <<h[1] + g.dir[1], h[2] + g.dir[2]>>
    IN IF ~within_bounds(new_head[1], new_head[2]) THEN {[g EXCEPT !.alive = FALSE]}
       ELSE IF self_hit(g, new_head) THEN {[g EXCEPT !.alive = FALSE]}
       ELSE IF new_head \in g.rocks THEN {[g EXCEPT !.alive = FALSE]}
       ELSE
         LET m == advance_body(g, new_head)
         IN IF m.food # <<>> /\ new_head = m.food[1].pos
              THEN IF m.food[1].kind = "leaf"
                     THEN spawn_food([m EXCEPT !.grow = @ + 1, !.score = @ + 10], FALSE)
                     ELSE UNION {spawn_food(x, FALSE) :
                                   x \in trigger_explosion(
                                           [m EXCEPT !.grow = @ + 2, !.score = @ + 25],
                                           new_head)}
              ELSE {m}

\* mutant: a fuse of exactly 0 does not go off
fuse_out_strict(fuse) == fuse < 0

\* line 242: gs.food.fuse <= 0
fuse_out(fuse) == fuse <= 0

update_food(g, d) ==
  IF g.food = <<>> THEN {g}
  ELSE IF g.food[1].kind = "nitro"
    THEN LET f == [g EXCEPT !.food[1].fuse = @ - d]
         IN IF fuse_out(f.food[1].fuse)
              THEN UNION {spawn_food([x EXCEPT !.food = <<>>], TRUE) :
                            x \in trigger_explosion(f, f.food[1].pos)}
              ELSE {f}
    ELSE {g}

\* mutant: the best score is not carried over
new_game_forget_best(best0) ==
  UNION {spawn_rocks(f, N_ROCKS) : f \in spawn_food(spawn_snake(GameState(0)), FALSE)}

\* main, lines 368-371 and 393-396: a fresh game
new_game(best0) ==
  UNION {spawn_rocks(f, N_ROCKS) : f \in spawn_food(spawn_snake(GameState(best0)), FALSE)}

ArrowKeys == {"left", "right", "up", "down"}
LetterKeys == {"a", "d", "w", "s"}

\* the direction a key asks for
key_dir(k) ==
  IF k \in {"left", "a"} THEN LEFT
  ELSE IF k \in {"right", "d"} THEN RIGHT
  ELSE IF k \in {"up", "w"} THEN UP
  ELSE DOWN

\* mutant: the reverse direction is accepted
turn_any(d, k) == IF k \in ArrowKeys \cup LetterKeys THEN key_dir(k) ELSE d

\* lines 399-407: direction change (no reverse)
turn(d, k) ==
  IF k \in {"left", "a"} /\ d # RIGHT THEN LEFT
  ELSE IF k \in {"right", "d"} /\ d # LEFT THEN RIGHT
  ELSE IF k \in {"up", "w"} /\ d # DOWN THEN UP
  ELSE IF k \in {"down", "s"} /\ d # UP THEN DOWN
  ELSE d

\* mutant: the direction keys are not blocked by the pause
key_down_ignores_pause(g, k) ==
  LET g1 == IF k = "p" THEN [g EXCEPT !.paused = ~@] ELSE g
      g2s == IF ~g1.alive /\ k = "r" THEN new_game(Max(g1.best, g1.score)) ELSE {g1}
  IN {IF g2.alive /\ k \in ArrowKeys \cup LetterKeys
        THEN [g2 EXCEPT !.dir = turn(@, k)]
        ELSE g2 : g2 \in g2s}

\* lines 385-407: one KEYDOWN event
key_down(g, k) ==
  LET g1 == IF k = "p" THEN [g EXCEPT !.paused = ~@] ELSE g
      g2s == IF ~g1.alive /\ k = "r" THEN new_game(Max(g1.best, g1.score)) ELSE {g1}
  IN {IF g2.alive /\ ~g2.paused /\ k \in ArrowKeys \cup LetterKeys
        THEN [g2 EXCEPT !.dir = turn(@, k)]
        ELSE g2 : g2 \in g2s}

(* ---------------- snake_game.py and caterpillar_game.py ---------------- *)

WINDOW_WIDTH == 600
WINDOW_HEIGHT == 600
GRID_SIZE == 20
GRID_WIDTH == WINDOW_WIDTH \div GRID_SIZE
GRID_HEIGHT == WINDOW_HEIGHT \div GRID_SIZE
\* particle['life'] = 1.0 and particle['life'] -= 0.05, in hundredths
PARTICLE_LIFE100 == 100
PARTICLE_DECAY100 == 5

\* the outcomes of generate_position that are explored
BasicFoodCells == {<<16, 15>>, <<17, 15>>, <<18, 15>>, <<19, 15>>}

\* Snake.__init__ / Caterpillar.__init__, with the locals of main
NewBasic ==
  [body |-> << <<GRID_WIDTH \div 2, GRID_HEIGHT \div 2>> >>, direction |-> RIGHT,
   grow |-> FALSE, food |-> <<0, 0>>, exploding |-> FALSE, life |-> 0,
   score |-> 0, game_over |-> FALSE]

\* Food.generate_position: any cell that is not in the body; the loop never
\* returns ({}) when the body covers the grid
generate_position(body) ==
  LET occ == Cells(body)
      free == {c \in BasicFoodCells : c \notin occ}
      cells == {c \in (0..(GRID_WIDTH - 1)) \X (0..(GRID_HEIGHT - 1)) : c \notin occ}
      rank(c) == c[2] * GRID_WIDTH + c[1]
  IN IF free # {} THEN free
     ELSE IF cells = {} THEN {}
     ELSE {CHOOSE c \in cells : \A e \in cells : rank(c) <= rank(e)}

\* main: snake = Snake(); food = Food(snake.body); score = 0; game_over = False
new_basic == {[NewBasic EXCEPT !.food = p] : p \in generate_position(NewBasic.body)}

\* mutant: the tail is dropped even when growing
move_always_pop(b) ==
  LET head == b.body[1]
      new_head == <<head[1] + b.direction[1], head[2] + b.direction[2]>>
  IN [b EXCEPT !.body = <<new_head>> \o SubSeq(b.body, 1, Len(b.body) - 1),
               !.grow = FALSE]

move(b) ==
  LET head == b.body[1]
      new_head == <<head[1] + b.direction[1], head[2] + b.direction[2]>>
      grown == <<new_head>> \o b.body
  IN IF ~b.grow
       THEN [b EXCEPT !.body = SubSeq(grown, 1, Len(grown) - 1)]
       ELSE [b EXCEPT !.body = grown, !.grow = FALSE]

change_direction(d, new_direction) ==
  IF d # Opposite(new_direction) THEN new_direction ELSE d

\* mutant: the head is looked up in the whole body, itself included
check_collision_whole_body(b) ==
  LET head == b.body[1]
  IN \/ head[1] < 0 \/ head[1] >= GRID_WIDTH \/ head[2] < 0 \/ head[2] >= GRID_HEIGHT
     \/ head \in Cells(b.body)

check_collision(b) ==
  LET head == b.body[1]
  IN \/ head[1] < 0 \/ head[1] >= GRID_WIDTH \/ head[2] < 0 \/ head[2] >= GRID_HEIGHT
     \/ head \in Cells(Tail(b.body))

\* mutant: every cell counts as the food
eat_food_anywhere(b, food_pos) == food_pos = food_pos

eat_food(b, food_pos) == b.body[1] = food_pos

\* Food.update_explosion: TRUE in .done when the explosion finished
update_explosion(b) ==
  LET left == b.life - PARTICLE_DECAY100
  IN IF left > 0 THEN [b EXCEPT !.life = left]
     ELSE [b EXCEPT !.life = 0, !.exploding = FALSE]

\* snake_game.main, lines 150-158
snake_frame(b) ==
  LET m == move(b)
      c == [m EXCEPT !.game_over = check_collision(m)]
  IN IF eat_food(c, c.food)
       THEN {[c EXCEPT !.grow = TRUE, !.score = @ + 10, !.food = p] :
               p \in generate_position(c.body)}
       ELSE {c}

\* caterpillar_game.main, lines 224-238
caterpillar_frame(b) ==
  IF b.exploding
    THEN LET u == update_explosion(b)
         IN IF ~u.exploding
              THEN {[u EXCEPT !.food = p] : p \in generate_position(u.body)}
              ELSE {u}
    ELSE LET m == move(b)
             c == [m EXCEPT !.game_over = check_collision(m)]
         IN IF eat_food(c, c.food)
              THEN {[c EXCEPT !.grow = TRUE, !.score = @ + 10,
                              !.exploding = TRUE, !.life = PARTICLE_LIFE100]}
              ELSE {c}

\* the keys pressed in the runs explored (the letter keys stand for the same
\* requests as the arrows)
KeysOf(v) ==
  IF v = "explodo" THEN ArrowKeys \cup {"p", "r"} ELSE ArrowKeys \cup {"space"}

\* snake_game.main lines 129-148, caterpillar_game.main lines 193-222
basic_key_down(v, b, k) ==
  IF b.game_over
    THEN IF k = "space" THEN new_basic ELSE {b}
    ELSE IF k \in ArrowKeys \/ (v = "caterpillar" /\ k \in LetterKeys)
           THEN {[b EXCEPT !.direction = change_direction(@, key_dir(k))]}
           ELSE {b}

(* ----------------------------- the programs ---------------------------- *)

Variants == {"explodo", "snake", "caterpillar"}
NoDir == <<0, 0>>

Init ==
  /\ variant \in Variants
  /\ gs \in (IF variant = "explodo" THEN new_game(0) ELSE {GameState(0)})
  /\ bs \in (IF variant = "explodo" THEN {NewBasic} ELSE new_basic)
  /\ time_accum = 0
  /\ dt = 0
  /\ pc = "events"
  /\ key = "none"
  /\ req = NoDir
  /\ moved = NoDir
  /\ eaten = 0
  /\ work = 0

\* for e in pygame.event.get(): one KEYDOWN of hungry_caterpillar_explodo.main
KeyDown(k) ==
  /\ variant = "explodo"
  /\ pc = "events"
  /\ work + 2 <= MaxWork
  /\ gs' \in key_down(gs, k)
  /\ key' = k
  /\ work' = work + 2
  /\ LET restart == ~gs.alive /\ k = "r"
         asked == gs'.alive /\ ~gs'.paused /\ k \in ArrowKeys \cup LetterKeys
     IN /\ req' = IF restart THEN NoDir ELSE IF asked THEN key_dir(k) ELSE req
        /\ moved' = IF restart THEN NoDir ELSE moved
        /\ eaten' = IF restart THEN 0 ELSE eaten
  /\ UNCHANGED <<variant, time_accum, dt, pc, bs>>

\* lines 378 and 409-414: the frame's clock and, when due, the movement step
Frame(d) ==
  /\ variant = "explodo"
  /\ pc = "events"
  /\ work < MaxWork
  /\ key' = "none"
  /\ IF gs.alive /\ ~gs.paused
       THEN /\ pc' = "food"
            /\ dt' = d
            /\ IF (time_accum + d) * FPS >= 1000
                 THEN /\ time_accum' = 0
                      /\ gs' \in step_snake(gs)
                      /\ work' = work + 1
                      /\ moved' = gs.dir
                      /\ req' = NoDir
                      /\ eaten' = eaten +
                           (IF gs'.snake # gs.snake /\ gs.food # <<>>
                               /\ gs'.snake[Len(gs'.snake)] = gs.food[1].pos
                              THEN IF gs.food[1].kind = "leaf" THEN 1 ELSE 2
                              ELSE 0)
                 ELSE /\ time_accum' = time_accum + d
                      /\ UNCHANGED <<gs, work, moved, req, eaten>>
       ELSE UNCHANGED <<pc, dt, gs, time_accum, work, moved, req, eaten>>
  /\ UNCHANGED <<variant, bs>>

\* line 416: update_food(gs, dt), still inside the frame that moved the snake
FoodStep ==
  /\ variant = "explodo"
  /\ pc = "food"
  /\ gs' \in update_food(gs, dt)
  /\ pc' = "events"
  /\ dt' = 0
  /\ UNCHANGED <<variant, time_accum, bs, key, req, moved, eaten, work>>

\* one KEYDOWN of snake_game.main or caterpillar_game.main
BasicKeyDown(k) ==
  /\ variant # "explodo"
  /\ work + 2 <= MaxBasicWork
  /\ bs' \in basic_key_down(variant, bs, k)
  /\ key' = k
  /\ work' = work + 2
  /\ LET restart == bs.game_over /\ k = "space"
         asked == ~bs.game_over
                    /\ (k \in ArrowKeys \/ (variant = "caterpillar" /\ k \in LetterKeys))
     IN /\ req' = IF restart THEN NoDir ELSE IF asked THEN key_dir(k) ELSE req
        /\ moved' = IF restart THEN NoDir ELSE moved
        /\ eaten' = IF restart THEN 0 ELSE eaten
  /\ UNCHANGED <<variant, gs, time_accum, dt, pc>>

\* one pass of the frame body of snake_game.main or caterpillar_game.main
BasicFrame ==
  /\ variant # "explodo"
  /\ work < MaxBasicWork
  /\ ~bs.game_over
  /\ bs' \in (IF variant = "snake" THEN snake_frame(bs) ELSE caterpillar_frame(bs))
  /\ key' = "none"
  /\ IF bs'.body # bs.body \/ bs'.game_over
       THEN /\ work' = work + 1
            /\ moved' = bs.direction
            /\ req' = NoDir
       ELSE UNCHANGED <<work, moved, req>>
  /\ eaten' = eaten + (IF bs'.score > bs.score THEN 1 ELSE 0)
  /\ UNCHANGED <<variant, gs, time_accum, dt, pc>>

Next ==
  \/ \E k \in KeysOf("explodo") : KeyDown(k)
  \/ \E d \in DtChoices : Frame(d)
  \/ FoodStep
  \/ \E k \in KeysOf(variant) : BasicKeyDown(k)
  \/ BasicFrame

Spec == Init /\ [][Next]_vars

(* ------------------ the advanced variant on a crowded board ------------ *)

\* the i-th cell (1 .. GRID_W * GRID_H) of the row-by-row path through the grid:
\* even rows from left to right, odd rows from right to left
PathCell(i) ==
  LET y == (i - 1) \div GRID_W
      x == (i - 1) % GRID_W
  IN <<IF y % 2 = 0 THEN x ELSE GRID_W - 1 - x, y>>

\* the numbers of empty cells of the boards explored
FreeCounts == {0, 1, 2}
\* the fuse drawn by spawn_food for the nitro food of a crowded board, and what
\* is left of it when the pass that spawned the food is over: update_food has
\* taken the dt of that pass off
CrowdedFuseDrawn == NITRO_MIN_FUSE + 71
FusesLeft == {CrowdedFuseDrawn - d : d \in DtChoices}

\* a late state of a session: the first rock on the first cell of the path, the
\* other rocks on its last cells, the snake along the path from its second cell
\* on having eaten a leaf in each of its last ticks (so one growth is pending),
\* the food on the next cell of the path, `free` cells empty behind the food
CrowdedBoard(free, kind, fuse) ==
  LET total == GRID_W * GRID_H
      len == total - N_ROCKS - 1 - free
  IN [snake |-> [j \in 1..len |-> PathCell(j + 1)],
      dir |-> <<PathCell(len + 2)[1] - PathCell(len + 1)[1],
                PathCell(len + 2)[2] - PathCell(len + 1)[2]>>,
      grow |-> 1,
      rocks |-> {PathCell(1)} \cup {PathCell(i) : i \in (total - N_ROCKS + 2)..total},
      food |-> <<[pos |-> PathCell(len + 2), kind |-> kind, fuse |-> fuse,
                  fuse_total |-> IF kind = "nitro" THEN CrowdedFuseDrawn ELSE 0]>>,
      score |-> 10 * (len + 1 - 5), best |-> 0, alive |-> TRUE, paused |-> FALSE]

CrowdedBoards ==
  {CrowdedBoard(free, "leaf", 0) : free \in FreeCounts}
    \cup {CrowdedBoard(free, "nitro", f) : free \in FreeCounts, f \in FusesLeft}

\* hungry_caterpillar_explodo.main between two frames, late in a session
CrowdedInit ==
  /\ variant = "explodo"
  /\ gs \in CrowdedBoards
  /\ bs = NewBasic
  /\ time_accum = 0
  /\ dt = 0
  /\ pc = "events"
  /\ key = "none"
  /\ req = NoDir
  /\ moved = gs.dir
  /\ eaten = Len(gs.snake) + gs.grow - 5
  /\ work = MaxWork - MaxCrowdedWork

CrowdedNext ==
  \/ \E k \in KeysOf("explodo") : KeyDown(k)
  \/ \E d \in DtChoices : Frame(d)
  \/ FoodStep

CrowdedSpec == CrowdedInit /\ [][CrowdedNext]_vars

(* ------------------ the basic variants on a crowded grid --------------- *)

\* the i-th cell of the row-by-row path through the grid of the basic variants
BasicPathCell(i) ==
  LET y == (i - 1) \div GRID_WIDTH
      x == (i - 1) % GRID_WIDTH
  IN <<IF y % 2 = 0 THEN x ELSE GRID_WIDTH - 1 - x, y>>

\* the numbers of cells off the body, the food cell not counted
BasicFreeCounts == {1, 2}

\* a late state of a session: the body along the path from its first cell (the
\* tail) on, food having been eaten in every tick (so the growth of the last
\* one is pending), the food on the next cell of the path
CrowdedBody(free) ==
  LET len == GRID_WIDTH * GRID_HEIGHT - 1 - free
  IN [NewBasic EXCEPT
        !.body = [j \in 1..len |-> BasicPathCell(len + 1 - j)],
        !.direction = <<BasicPathCell(len + 1)[1] - BasicPathCell(len)[1],
                        BasicPathCell(len + 1)[2] - BasicPathCell(len)[2]>>,
        !.grow = TRUE,
        !.food = BasicPathCell(len + 1),
        !.score = 10 * len]

\* snake_game.main / caterpillar_game.main between two frames, late in a session
BasicCrowdedInit ==
  /\ variant \in {"snake", "caterpillar"}
  /\ bs \in {CrowdedBody(free) : free \in BasicFreeCounts}
  /\ gs = GameState(0)
  /\ time_accum = 0
  /\ dt = 0
  /\ pc = "events"
  /\ key = "none"
  /\ req = NoDir
  /\ moved = bs.direction
  /\ eaten = Len(bs.body)
  /\ work = MaxBasicWork - MaxCrowdedWork

BasicCrowdedNext ==
  \/ \E k \in KeysOf(variant) : BasicKeyDown(k)
  \/ BasicFrame

BasicCrowdedSpec == BasicCrowdedInit /\ [][BasicCrowdedNext]_vars

(* ------------------------------- claims -------------------------------- *)

Explodo == variant = "explodo"
SnakeHead(g) == g.snake[Len(g.snake)]
NextHead(g) == <<SnakeHead(g)[1] + g.dir[1], SnakeHead(g)[2] + g.dir[2]>>
InGrid(c) == c[1] \in 0..(GRID_W - 1) /\ c[2] \in 0..(GRID_H - 1)
\* this step is a frame of the advanced variant that called step_snake
Stepped == Explodo /\ pc = "events" /\ work' = work + 1
\* this step is a frame of a basic variant that called move
BasicNextHead == <<bs.body[1][1] + bs.direction[1], bs.body[1][2] + bs.direction[2]>>
BasicMoved == ~Explodo /\ work' = work + 1
\* this step handled a KEYDOWN
KeyHandled == work' = work + 2

\* C1: advanced variant: every cell of gs.snake is inside the grid in every
\* reachable state, and a step_snake whose new head would be outside the grid
\* only sets alive to false (snake, grow, rocks, food, score stay as they were).
C1_SnakeInsideGrid ==
  /\ [](Explodo => \A c \in Cells(gs.snake) : InGrid(c))
  /\ [][Stepped /\ ~InGrid(NextHead(gs)) => gs' = [gs EXCEPT !.alive = FALSE]]_vars

\* the snake died at a wall: its head is on the border and its heading leaves the grid
C1_Witness == Explodo /\ ~gs.alive /\ ~InGrid(NextHead(gs)) /\ pc = "food"

\* C2: in all three variants a dispatched request for the exact opposite of the
\* current direction changes nothing, and a request for any other direction
\* sets the direction to the requested one and changes nothing else.
C2_NoReverse ==
  [][/\ (Explodo /\ KeyHandled /\ key' \in ArrowKeys /\ gs.alive /\ ~gs.paused
           => /\ gs' = [gs EXCEPT !.dir = IF key_dir(key') = Opposite(gs.dir)
                                            THEN gs.dir ELSE key_dir(key')]
              /\ time_accum' = time_accum)
     /\ (~Explodo /\ KeyHandled /\ key' \in ArrowKeys /\ ~bs.game_over
           => bs' = [bs EXCEPT !.direction = IF key_dir(key') = Opposite(bs.direction)
                                               THEN bs.direction ELSE key_dir(key')])]_vars

\* a LEFT request has just been refused while heading RIGHT
C2_Witness == Explodo /\ key = "left" /\ gs.dir = RIGHT /\ gs.alive /\ ~gs.paused

\* C3: in all three variants a tick that moves the head onto a body cell (other
\* than a tail cell vacated in that tick) ends the game, and once the game is
\* over no step but a restart changes the body.
C3_SelfCollision ==
  [][/\ (Stepped /\ NextHead(gs) \in Cells(gs.snake)
             \ (IF gs.grow = 0 THEN {gs.snake[1]} ELSE {})
           => ~gs'.alive)
     /\ (Explodo /\ ~gs.alive /\ ~(KeyHandled /\ key' = "r") => gs'.snake = gs.snake)
     /\ (BasicMoved /\ BasicNextHead \in Cells(bs.body)
             \ (IF bs.grow THEN {} ELSE {bs.body[Len(bs.body)]})
           => bs'.game_over)
     /\ (~Explodo /\ bs.game_over /\ ~(KeyHandled /\ key' = "space")
           => bs'.body = bs.body)]_vars

\* the basic snake ran into its own body: the game is over with the head on a body cell
C3_Witness ==
  variant = "snake" /\ bs.game_over /\ bs.body[1] \in Cells(Tail(bs.body))
    /\ InGrid(bs.body[1])

\* C4: body length plus pending growth equals the initial length (5 advanced,
\* 1 basic) plus the growth of all food eaten in the session (1 plain, 2 nitro).
C4_GrowthInvariant ==
  IF Explodo THEN Len(gs.snake) + gs.grow = 5 + eaten
  ELSE Len(bs.body) + (IF bs.grow THEN 1 ELSE 0) = 1 + eaten

\* one leaf was eaten and its growth has been applied to the body
C4_Witness == Explodo /\ eaten = 1 /\ gs.grow = 0 /\ Len(gs.snake) = 6 /\ gs.alive

SqDist(a, b) == (a[1] - b[1]) * (a[1] - b[1]) + (a[2] - b[2]) * (a[2] - b[2])
\* this step is the update_food call in which the fuse of a nitro food runs out
FuseBlast ==
  Explodo /\ pc = "food" /\ gs.food # <<>> /\ gs.food[1].kind = "nitro"
    /\ gs.food[1].fuse - dt <= 0
\* this step is a step_snake call that moved the head onto the active food
Ate(kind) ==
  Stepped /\ gs.food # <<>> /\ gs.food[1].kind = kind /\ gs'.snake # gs.snake
    /\ SnakeHead(gs') = gs.food[1].pos
\* the cells this step added to gs.rocks are debris of an explosion at center,
\* sn being the snake at the time of the call
Debris(center, sn) ==
  LET added == gs'.rocks \ gs.rocks
  IN /\ \A p \in added :
          /\ InGrid(p)
          /\ SqDist(p, center) \in {4, 5}
          /\ 3456 <= 1000 * SqDist(p, center) /\ 1000 * SqDist(p, center) <= 7488
          /\ p \notin Cells(sn) /\ p \notin gs.rocks /\ p # center
     /\ Cardinality(added) <= 12

\* C5: advanced variant: an explosion triggered while alive kills the snake
\* exactly when the squared distance between head and centre is at most 5
\* (Euclidean distance <= 2.4); farther away alive stays true.
C5_BlastLethality ==
  [][/\ (FuseBlast /\ gs.alive
           => (~gs'.alive <=> SqDist(SnakeHead(gs), gs.food[1].pos) <= 5))
     /\ (Ate("nitro") => ~gs'.alive)]_vars

\* the snake outlived an explosion: debris was added in this game and it is alive
C5_Witness == Explodo /\ gs.alive /\ Cardinality(gs.rocks) > N_ROCKS

\* C6: advanced variant: every cell one explosion adds to gs.rocks is inside the
\* grid, at squared distance 4 or 5 from the centre, and was neither a snake
\* cell, nor a rock, nor the active food cell; at most 12 cells are added.
C6_DebrisPlacement ==
  [][/\ (FuseBlast => Debris(gs.food[1].pos, gs.snake))
     /\ (Ate("nitro") => Debris(SnakeHead(gs'), gs'.snake))]_vars

\* the snake ate a nitro food and the explosion left debris
C6_Witness == Explodo /\ ~gs.alive /\ gs.score = 25 /\ Cardinality(gs.rocks) > N_ROCKS

\* C7: advanced variant: step_snake on a state with alive = false returns the
\* state unchanged in every field.
C7_DeadStepIsNoOp == Explodo /\ ~gs.alive => step_snake(gs) = {gs}

\* the snake is dead, the game is not paused, and the event loop is running
C7_Witness == Explodo /\ ~gs.alive /\ ~gs.paused /\ pc = "events" /\ gs.score > 0

\* C8: advanced variant: update_food leaves a leaf alone, only shortens the fuse
\* of a nitro food while the fuse stays positive, and when the fuse reaches 0 it
\* explodes at the food's cell and replaces the food by a leaf (or by nothing
\* when no cell is free).
C8_FuseExpiry ==
  [][Explodo /\ pc = "food" /\ gs.food # <<>> =>
       IF gs.food[1].kind = "leaf" THEN gs' = gs
       ELSE IF gs.food[1].fuse - dt > 0
         THEN gs' = [gs EXCEPT !.food = <<[pos |-> gs.food[1].pos, kind |-> "nitro",
                                           fuse |-> gs.food[1].fuse - dt,
                                           fuse_total |-> gs.food[1].fuse_total]>>]
         ELSE /\ \A p \in gs'.rocks \ gs.rocks : SqDist(p, gs.food[1].pos) \in {4, 5}
              /\ gs.alive => (~gs'.alive <=> SqDist(SnakeHead(gs), gs.food[1].pos) <= 5)
              /\ IF gs'.food = <<>>
                   THEN Cardinality(Cells(gs'.snake) \cup gs'.rocks) = GRID_W * GRID_H
                   ELSE /\ gs'.food[1].kind = "leaf"
                        /\ gs'.food[1].pos \notin Cells(gs'.snake) \cup gs'.rocks]_vars

\* a fuse ran out before anything was eaten: debris lies around and a leaf replaced the nitro
C8_Witness ==
  Explodo /\ pc = "events" /\ gs.score = 0 /\ Cardinality(gs.rocks) > N_ROCKS
    /\ gs.food # <<>> /\ gs.food[1].kind = "leaf"

BasicAte == BasicMoved /\ BasicNextHead = bs.food

\* C9 as claimed: the advance that lands the head on plain food already
\* lengthens the body by one and leaves no pending growth (one-cell snake
\* heading RIGHT: body = [food cell, old cell], score + 10, grow 0, alive).
C9_AsClaimed ==
  [][/\ (BasicAte => /\ Len(bs'.body) = Len(bs.body) + 1
                     /\ ~bs'.grow)
     /\ (BasicAte /\ Len(bs.body) = 1 /\ bs.direction = RIGHT
           => /\ bs'.body = <<bs.food, bs.body[1]>>
              /\ bs'.score = bs.score + 10
              /\ ~bs'.game_over)
     /\ (Ate("leaf") => Len(gs'.snake) = Len(gs.snake) + 1 /\ gs'.grow = 0)]_vars

\* C9 amended: the advance that lands the head on plain food adds 10 to the
\* score and records the growth as pending (grow = true, grow + 1) without
\* lengthening the body for that food; the body gets one cell longer in the
\* next advance, which keeps the tail.
C9_EatThenGrow ==
  [][/\ (BasicAte => /\ bs'.body = <<bs.food>> \o (IF bs.grow THEN bs.body
                                                    ELSE SubSeq(bs.body, 1, Len(bs.body) - 1))
                     /\ bs'.grow
                     /\ bs'.score = bs.score + 10
                     /\ ~bs'.game_over)
     /\ (BasicMoved /\ bs.grow => Len(bs'.body) = Len(bs.body) + 1)
     /\ (Ate("leaf") => /\ gs'.snake = (IF gs.grow > 0 THEN gs.snake ELSE Tail(gs.snake))
                                         \o <<gs.food[1].pos>>
                        /\ gs'.grow = (IF gs.grow > 0 THEN gs.grow - 1 ELSE 0) + 1
                        /\ gs'.score = gs.score + 10
                        /\ gs'.alive)
     /\ (Stepped /\ gs'.snake # gs.snake /\ gs.grow > 0
           => Len(gs'.snake) = Len(gs.snake) + 1)]_vars

\* a one-cell snake heading RIGHT has just eaten: still one cell, growth pending
C9_Witness ==
  variant = "snake" /\ Len(bs.body) = 1 /\ bs.grow /\ bs.score = 10
    /\ bs.direction = RIGHT /\ ~bs.game_over

\* C10 as claimed: of the direction requests that arrive between two advances
\* only the last one counts: the direction is the last request unless that is
\* the reverse of the direction of the previous advance, which is then kept.
C10_LastWriteWins ==
  moved # NoDir /\ req # NoDir =>
    (IF Explodo THEN gs.dir ELSE bs.direction)
      = (IF req = Opposite(moved) THEN moved ELSE req)

\* C11 as claimed: in every variant the direction used by an advance is never
\* the exact opposite of the direction used by the previous advance, so the new
\* head is never the neck segment.
C11_NoReversalBetweenAdvances ==
  [][/\ (Stepped /\ moved # NoDir
           => /\ gs.dir # Opposite(moved)
              /\ NextHead(gs) # gs.snake[Len(gs.snake) - 1])
     /\ (BasicMoved /\ moved # NoDir
           => /\ bs.direction # Opposite(moved)
              /\ (Len(bs.body) > 1 => BasicNextHead # bs.body[2]))]_vars

\* C12 as claimed: advanced variant: with the grow counter at 0 a new head equal
\* to the tail cell gs.snake[0] is no collision: alive stays true and the snake
\* shifts by one cell; with the grow counter above 0 the tail cell is a collision.
C12_TailFollow ==
  [][/\ (Stepped /\ gs.grow = 0 /\ NextHead(gs) = gs.snake[1]
           => /\ gs'.alive
              /\ gs'.snake = Append(Tail(gs.snake), gs.snake[1]))
     /\ (Stepped /\ gs.grow > 0 /\ NextHead(gs) = gs.snake[1] => ~gs'.alive)]_vars

\* snake and rocks of g cover the whole grid: spawn_food finds no empty cell
NoCellLeft(g) == Cardinality(Cells(g.snake) \cup g.rocks) = GRID_W * GRID_H

\* C13 as claimed: advanced variant: when the food spawn requested after a
\* consumption or after a fuse expiry finds no unoccupied cell, no food is
\* active afterwards, and the consumed food is never the active food again.
C13_FullBoardSpawn ==
  [][/\ ((Ate("leaf") \/ Ate("nitro")) /\ NoCellLeft(gs') => gs'.food = <<>>)
     /\ ((Ate("leaf") \/ Ate("nitro")) /\ gs'.food # <<>>
           => gs'.food[1].pos # gs.food[1].pos)
     /\ (FuseBlast /\ NoCellLeft(gs') => gs'.food = <<>>)]_vars

\* C14: advanced variant: the restart key does nothing while alive, alive turns
\* from false to true only by a restart, and a restart yields the initial state
\* (5-cell snake with head at (GRID_W \div 3, GRID_H \div 2) heading right, grow
\* 0, score 0, not paused, alive, 12 rocks, one food, neither on the snake) with
\* best = max(previous best, last score); best never decreases.
C14_Restart ==
  [][Explodo =>
       /\ (KeyHandled /\ key' = "r" /\ gs.alive => gs' = gs)
       /\ (~gs.alive /\ gs'.alive => KeyHandled /\ key' = "r")
       /\ (KeyHandled /\ key' = "r" /\ ~gs.alive
             => /\ gs'.snake = [j \in 1..5 |-> <<GRID_W \div 3 - 5 + j, GRID_H \div 2>>]
                /\ gs'.dir = RIGHT /\ gs'.grow = 0 /\ gs'.score = 0
                /\ ~gs'.paused /\ gs'.alive
                /\ Cardinality(gs'.rocks) = 12
                /\ Len(gs'.food) = 1
                /\ gs'.rocks \cap Cells(gs'.snake) = {}
                /\ gs'.food[1].pos \notin Cells(gs'.snake) \cup gs'.rocks
                /\ gs'.best = Max(gs.best, gs.score))
       /\ gs'.best >= gs.best]_vars

\* a session that scored has been restarted: the new session starts with that best
C14_Witness ==
  Explodo /\ key = "r" /\ gs.alive /\ gs.best > 0 /\ gs.score = 0 /\ ~gs.paused
    /\ SnakeHead(gs) = <<GRID_W \div 3, GRID_H \div 2>>

\* C15 as claimed: advanced variant: once alive is false, alive stays false and
\* snake, rocks, food (position, kind, fuse) and score do not change, in the
\* same frame or a later one, until a restart.
C15_FrozenAfterDeath ==
  [][Explodo /\ ~gs.alive /\ ~(KeyHandled /\ key' = "r")
       => /\ ~gs'.alive
          /\ gs'.snake = gs.snake
          /\ gs'.rocks = gs.rocks
          /\ gs'.food = gs.food
          /\ gs'.score = gs.score]_vars

\* C16 as claimed: advanced variant: in every state an active food lies on a
\* cell inside the grid that is neither a snake cell nor a rock cell.
C16_FoodPlacement ==
  Explodo /\ gs.food # <<>> =>
    /\ InGrid(gs.food[1].pos)
    /\ gs.food[1].pos \notin Cells(gs.snake)
    /\ gs.food[1].pos \notin gs.rocks

\* C17 as claimed: in every variant a requested food spawn returns, also when
\* no cell is free: spawn_food has an outcome in every state, and so has the
\* frame of a basic variant, which calls Food.generate_position when the food
\* is eaten (snake) or its explosion has finished (caterpillar).
C17_SpawnTerminates ==
  /\ Explodo => spawn_food(gs, FALSE) # {} /\ spawn_food(gs, TRUE) # {}
  /\ variant = "snake" /\ ~bs.game_over => snake_frame(bs) # {}
  /\ variant = "caterpillar" /\ ~bs.game_over => caterpillar_frame(bs) # {}

BasicInGrid(c) == c[1] \in 0..(GRID_WIDTH - 1) /\ c[2] \in 0..(GRID_HEIGHT - 1)

\* C18 as claimed: basic variants: a tick whose new head is outside the grid
\* sets game_over and does not add that cell to the body, so every body cell is
\* inside the grid in every state.
C18_BasicStaysInGrid ==
  /\ [](~Explodo => \A c \in Cells(bs.body) : BasicInGrid(c))
  /\ [][BasicMoved /\ ~BasicInGrid(BasicNextHead)
          => bs'.game_over /\ BasicNextHead \notin Cells(bs'.body)]_vars

\* C19: between restarts the score never decreases; it changes only in a tick
\* in which the head reaches the active food, then by exactly +10 for a leaf
\* and +25 for a nitro food in the advanced variant and by +10 in the basic
\* variants.
C19_Score ==
  [][/\ (Explodo /\ ~(KeyHandled /\ key' = "r")
           => /\ gs'.score >= gs.score
              /\ (gs'.score # gs.score => Ate("leaf") \/ Ate("nitro")))
     /\ (Ate("leaf") => gs'.score = gs.score + 10)
     /\ (Ate("nitro") => gs'.score = gs.score + 25)
     /\ (~Explodo /\ ~(KeyHandled /\ key' = "space")
           => /\ bs'.score >= bs.score
              /\ (bs'.score # bs.score => BasicAte))
     /\ (BasicAte => bs'.score = bs.score + 10)]_vars

\* a leaf and then a nitro food have been eaten in one session
C19_Witness == Explodo /\ gs.score = 35

\* C20: advanced variant: a tick in which step_snake moves the head onto a
\* nitro food adds 25 to the score and leaves alive false; its growth of 2 stays
\* pending and is never applied: a dead snake keeps body and grow counter until
\* the restart, and a living snake never has more than one growth pending.
C20_NitroIsFatal ==
  /\ [](Explodo /\ gs.alive => gs.grow <= 1)
  /\ [][/\ (Ate("nitro")
              => /\ gs'.score = gs.score + 25
                 /\ ~gs'.alive
                 /\ gs'.grow = (IF gs.grow > 0 THEN gs.grow - 1 ELSE 0) + 2
                 /\ Len(gs'.snake) = Len(gs.snake) + (IF gs.grow > 0 THEN 1 ELSE 0))
        /\ (Explodo /\ ~gs.alive /\ ~(KeyHandled /\ key' = "r")
              => gs'.snake = gs.snake /\ gs'.grow = gs.grow)]_vars

\* the start snake ate a nitro food: dead, still 5 cells, two growths pending
C20_Witness ==
  Explodo /\ ~gs.alive /\ gs.grow = 2 /\ Len(gs.snake) = 5 /\ gs.score = 25
    /\ pc = "events"

\* the last cell of the body of a basic variant
BasicTail == bs.body[Len(bs.body)]
\* the cells the body keeps in this move: all but the tail unless it grows
BasicKept == IF bs.grow THEN bs.body ELSE SubSeq(bs.body, 1, Len(bs.body) - 1)

\* C21 as claimed: basic variants: a non-growing move whose new head is the
\* cell the tail occupied before the move is a self-collision and ends the game.
C21_TailCellCollides ==
  [][BasicMoved /\ ~bs.grow /\ BasicNextHead = BasicTail => bs'.game_over]_vars

\* C21 amended: basic variants: the collision check runs after the move and
\* tests the new head against the body without the removed tail: a non-growing
\* move onto the cell the tail occupied is no collision and the game goes on;
\* the tail cell collides only in a growing move, which keeps the tail.
C21_TailCellIsFree ==
  [][/\ (BasicMoved /\ ~bs.grow /\ BasicNextHead = BasicTail
           => /\ ~bs'.game_over
              /\ bs'.body = <<BasicNextHead>> \o BasicKept)
     /\ (BasicMoved /\ bs.grow /\ BasicNextHead = BasicTail => bs'.game_over)
     /\ (BasicMoved
           => (bs'.game_over <=> \/ ~BasicInGrid(BasicNextHead)
                                 \/ BasicNextHead \in Cells(BasicKept)))]_vars

\* the two-cell snake that went RIGHT from (15,15) has turned round onto its
\* tail cell (no other way leads here in seven units of work) and plays on
C21_Witness ==
  /\ variant = "snake" /\ ~bs.game_over /\ work <= 7
  /\ bs.body = << <<16, 15>>, <<17, 15>> >> /\ moved = LEFT

\* C22: advanced variant: in every state the cells of gs.snake are pairwise
\* distinct and none is a rock; a step_snake whose new head is a rock cell only
\* sets alive to false; no step (start, restart and explosions included) puts
\* a rock on a snake cell.
C22_SnakeDistinctOffRocks ==
  /\ [](Explodo => /\ Cardinality(Cells(gs.snake)) = Len(gs.snake)
                   /\ Cells(gs.snake) \cap gs.rocks = {})
  /\ [][/\ (Stepped /\ NextHead(gs) \in gs.rocks => gs' = [gs EXCEPT !.alive = FALSE])
        /\ (Explodo => (gs'.rocks \ gs.rocks) \cap Cells(gs'.snake) = {})]_vars

\* the snake ran into a rock: dead, the cell ahead of its head is a rock
C22_Witness ==
  Explodo /\ ~gs.alive /\ pc = "food" /\ NextHead(gs) \in gs.rocks /\ gs.score = 0

\* while paused, a frame or a key other than p and r changes neither gs nor the
\* time accumulated for the next step, and p only clears the paused flag
PauseFreezes ==
  Explodo /\ gs.paused
    => /\ (~(KeyHandled /\ key' \in {"p", "r"})
             => gs' = gs /\ time_accum' = time_accum)
       /\ (KeyHandled /\ key' = "p"
             => gs' = [gs EXCEPT !.paused = FALSE] /\ time_accum' = time_accum)
       /\ (KeyHandled /\ key' = "r" /\ gs.alive => gs' = gs)

\* C23 as claimed: advanced variant: while paused, frames, elapsed time and
\* direction keys leave the game state unchanged, un-pausing continues from
\* that state, and only a pause toggle changes the paused flag.
C23_OnlyToggleChangesPaused ==
  [][/\ PauseFreezes
     /\ (Explodo /\ gs'.paused # gs.paused => KeyHandled /\ key' = "p")]_vars

\* C23 amended: as claimed, except that the paused flag is also cleared by a
\* restart, which is accepted while paused when the snake is dead.
C23_PauseFreezes ==
  [][/\ PauseFreezes
     /\ (Explodo /\ gs'.paused # gs.paused
           => \/ KeyHandled /\ key' = "p"
              \/ KeyHandled /\ key' = "r" /\ ~gs.alive /\ gs.paused /\ ~gs'.paused)]_vars

\* a frame has passed while the running game was paused
C23_Witness ==
  Explodo /\ gs.paused /\ gs.alive /\ key = "none" /\ moved # NoDir /\ pc = "events"

\* C24: advanced variant: no step other than a restart removes a cell from
\* gs.rocks: between two restarts the rock set only grows.
C24_RocksPermanent ==
  [][Explodo /\ ~(KeyHandled /\ key' = "r" /\ ~gs.alive) => gs.rocks \subseteq gs'.rocks]_vars

\* a fuse ran out next to the snake before it ate anything: the rocks of the
\* start are all there, with debris added
C24_Witness ==
  /\ Explodo /\ ~gs.alive /\ gs.score = 0 /\ gs.best = 0
  /\ UNION {RockDraws[i] : i \in 1..N_ROCKS} \subseteq gs.rocks
  /\ Cardinality(gs.rocks) > N_ROCKS

Caterpillar == variant = "caterpillar"

\* C25 as claimed: caterpillar variant: while the explosion of the eaten food
\* is active the caterpillar does not move, the score stays and no collision is
\* evaluated; every frame shortens the animation, which ends after a bounded
\* number of frames with a new food on a cell off the body; the growth is
\* pending meanwhile and lengthens the body in the next move.
C25_ExplosionAnimation ==
  /\ [](Caterpillar /\ bs.exploding
          => /\ bs.grow /\ ~bs.game_over
             /\ bs.life \in 1..PARTICLE_LIFE100
             /\ caterpillar_frame(bs) # {})
  /\ [][/\ (Caterpillar /\ bs.exploding
              => /\ bs'.body = bs.body /\ bs'.score = bs.score
                 /\ bs'.game_over = bs.game_over /\ bs'.grow = bs.grow
                 /\ (~KeyHandled
                       => IF bs.life - PARTICLE_DECAY100 > 0
                            THEN /\ bs'.exploding
                                 /\ bs'.life = bs.life - PARTICLE_DECAY100
                                 /\ bs'.food = bs.food
                            ELSE /\ ~bs'.exploding
                                 /\ BasicInGrid(bs'.food)
                                 /\ bs'.food \notin Cells(bs'.body)))
        /\ (Caterpillar /\ BasicAte => bs'.exploding /\ bs'.life = PARTICLE_LIFE100)
        /\ (Caterpillar /\ BasicMoved /\ bs.grow
              => bs'.body = <<BasicNextHead>> \o bs.body)]_vars

====
